---------------------------- MODULE Spec2Model ----------------------------
(***************************************************************************)
(* Model of the hazard-search application in api/app.py: the query         *)
(* extractors find_week, find_location and get_keywords, the record filter *)
(* search, and the request handler home.                                   *)
(*                                                                         *)
(* A Python str is modelled as a sequence of one-character strings, so     *)
(* that regular-expression matching, suffix stripping, lower-casing and    *)
(* the substring tests are computed character by character as the code     *)
(* computes them.                                                          *)
(***************************************************************************)
EXTENDS Integers, Sequences, FiniteSets, TLC

VARIABLES
    database,      \* the catalogue loaded at import time (app.py:15-16)
    pc,            \* position of the request handler
    method,        \* request.method of the request being handled
    tagger,        \* what pos_tag did during the request being handled
    user_input,    \* home(): the submitted text
    keywords,      \* home(): keywords handed to the template
    restrictions,  \* home(): the slots handed to the template
    results,       \* home(): the records handed to the template
    arg,           \* text handed to an extractor called on its own
    week_ret,      \* what find_week returned for arg
    loc_ret,       \* what find_location returned for arg
    threads        \* the locals of the search calls running at the same time

vars == <<database, pc, method, tagger, user_input, keywords, restrictions,
          results, arg, week_ret, loc_ret, threads>>

-----------------------------------------------------------------------------
(* Python values *)

\* Python's None, for the optional week (find_week only produces integers
\* from \d+ and from the table, which are never negative).
None == -1

\* The value a variable holds before the function that sets it has returned.
NotCalled == <<"not called">>

\* str.lower() on one character (ASCII letters).
LowerChar(c) ==
    CASE c = "A" -> "a" [] c = "B" -> "b" [] c = "C" -> "c" [] c = "D" -> "d"
      [] c = "E" -> "e" [] c = "F" -> "f" [] c = "G" -> "g" [] c = "H" -> "h"
      [] c = "I" -> "i" [] c = "J" -> "j" [] c = "K" -> "k" [] c = "L" -> "l"
      [] c = "M" -> "m" [] c = "N" -> "n" [] c = "O" -> "o" [] c = "P" -> "p"
      [] c = "Q" -> "q" [] c = "R" -> "r" [] c = "S" -> "s" [] c = "T" -> "t"
      [] c = "U" -> "u" [] c = "V" -> "v" [] c = "W" -> "w" [] c = "X" -> "x"
      [] c = "Y" -> "y" [] c = "Z" -> "z" [] OTHER -> c

\* str.lower()
Lower(s) == [i \in 1..Len(s) |-> LowerChar(s[i])]

\* \s of the re module, on the characters the queries are written in.
IsSpace(c) == c \in {" ", "\t", "\n"}

\* \d of the re module and str.isdigit() on one character (ASCII digits).
IsDigitChar(c) == c \in {"0", "1", "2", "3", "4", "5", "6", "7", "8", "9"}

DigitValue(c) ==
    CASE c = "0" -> 0 [] c = "1" -> 1 [] c = "2" -> 2 [] c = "3" -> 3
      [] c = "4" -> 4 [] c = "5" -> 5 [] c = "6" -> 6 [] c = "7" -> 7
      [] c = "8" -> 8 [] c = "9" -> 9

\* str.isdigit(): non-empty and every character a digit.
isdigit(s) == Len(s) > 0 /\ \A i \in 1..Len(s) : IsDigitChar(s[i])

\* int(s) for a digit string (leading zeros are dropped by the value).
RECURSIVE int(_)
int(s) ==
    IF Len(s) = 0 THEN 0
    ELSE 10 * int(SubSeq(s, 1, Len(s) - 1)) + DigitValue(s[Len(s)])

DigitChars == <<"0", "1", "2", "3", "4", "5", "6", "7", "8", "9">>

\* str(n) for a non-negative integer.
RECURSIVE IntToStr(_)
IntToStr(n) ==
    IF n < 10 THEN <<DigitChars[n + 1]>>
    ELSE IntToStr(n \div 10) \o <<DigitChars[(n % 10) + 1]>>

\* needle in hay (the substring test of Python's `in` on str).
Contains(hay, needle) ==
    \E p \in 1..(Len(hay) - Len(needle) + 1) :
        SubSeq(hay, p, p + Len(needle) - 1) = needle

-----------------------------------------------------------------------------
(* Regular-expression matching, re.IGNORECASE (app.py:30, app.py:44) *)

\* A literal of the pattern matches the text at position p, ignoring case.
MatchesAt(text, p, lit) ==
    /\ p >= 1
    /\ p + Len(lit) - 1 <= Len(text)
    /\ \A i \in 1..Len(lit) : LowerChar(text[p + i - 1]) = lit[i]

\* \d in place of \d+: a single digit.
DigitRunSingle(text, p) ==
    IF p <= Len(text) /\ IsDigitChar(text[p]) THEN 1 ELSE 0

\* Length of the longest run of digits starting at p (\d+ is greedy).
RECURSIVE DigitRun(_, _)
DigitRun(text, p) ==
    IF p <= Len(text) /\ IsDigitChar(text[p]) THEN 1 + DigitRun(text, p + 1) ELSE 0

\* Length of the longest run of whitespace starting at p (\s* is greedy).
RECURSIVE SpaceRun(_, _)
SpaceRun(text, p) ==
    IF p <= Len(text) /\ IsSpace(text[p]) THEN 1 + SpaceRun(text, p + 1) ELSE 0

\* The lengths n, n-1, ..., 1: the order in which a greedy \d+ gives back.
Descending(n) == [i \in 1..n |-> n - i + 1]

\* The lengths n, n-1, ..., 0: the order in which a greedy \s* gives back.
DescendingTo0(n) == [i \in 1..(n + 1) |-> n - i + 1]

\* (?:st|nd|rd|th)
OrdinalSuffixes == <<<<"s", "t">>, <<"n", "d">>, <<"r", "d">>, <<"t", "h">>>>

SuffixAt(text, p) == \E i \in 1..Len(OrdinalSuffixes) : MatchesAt(text, p, OrdinalSuffixes[i])

-----------------------------------------------------------------------------
(* find_week (app.py:24-41) *)

\* week_words, app.py:25-28
week_words ==
    ( <<"f", "i", "r", "s", "t">> :> 1 ) @@ ( <<"s", "e", "c", "o", "n", "d">> :> 2 ) @@ ( <<"t", "h", "i", "r", "d">> :> 3 ) @@
    ( <<"f", "o", "u", "r", "t", "h">> :> 4 ) @@ ( <<"f", "i", "f", "t", "h">> :> 5 ) @@ ( <<"o", "n", "e">> :> 1 ) @@
    ( <<"t", "w", "o">> :> 2 ) @@ ( <<"t", "h", "r", "e", "e">> :> 3 ) @@ ( <<"f", "o", "u", "r">> :> 4 ) @@
    ( <<"f", "i", "v", "e">> :> 5 )

\* The word alternatives of both groups of the week pattern, in the order
\* the pattern lists them; \d+ comes last.
WeekWordAlts ==
    <<<<"f", "i", "r", "s", "t">>, <<"s", "e", "c", "o", "n", "d">>, <<"t", "h", "i", "r", "d">>, <<"f", "o", "u", "r", "t", "h">>, <<"f", "i", "f", "t", "h">>,
      <<"o", "n", "e">>, <<"t", "w", "o">>, <<"t", "h", "r", "e", "e">>, <<"f", "o", "u", "r">>, <<"f", "i", "v", "e">>>>

\* The lengths group 1 or group 2 can take at p, in the order the matcher
\* tries them: each word alternative in turn, then \d+ from longest to
\* shortest.
WeekGroupLens(text, p) ==
    LET words == SelectSeq(WeekWordAlts, LAMBDA w : MatchesAt(text, p, w))
    IN  [i \in 1..Len(words) |-> Len(words[i])] \o Descending(DigitRun(text, p))

\* \s*(?:st|nd|rd|th)?\s*week matches at q.
WeekTail(text, q) ==
    \E a \in 0..SpaceRun(text, q) :
        \/ /\ SuffixAt(text, q + a)
           /\ \E b \in 0..SpaceRun(text, q + a + 2) :
                  MatchesAt(text, q + a + 2 + b, <<"w", "e", "e", "k">>)
        \/ MatchesAt(text, q + a, <<"w", "e", "e", "k">>)

\* First alternative of the pattern at p: the text of group 1, <<>> if the
\* alternative does not match at p.
WeekBranch1(text, p) ==
    LET ok == SelectSeq(WeekGroupLens(text, p), LAMBDA n : WeekTail(text, p + n))
    IN  IF ok = <<>> THEN <<>> ELSE SubSeq(text, p, p + Head(ok) - 1)

\* Second alternative of the pattern at p, week\s*(...): the text of group 2,
\* <<>> if the alternative does not match at p.
WeekBranch2(text, p) ==
    IF ~MatchesAt(text, p, <<"w", "e", "e", "k">>) THEN <<>>
    ELSE LET gaps == SelectSeq(DescendingTo0(SpaceRun(text, p + 4)),
                               LAMBDA a : WeekGroupLens(text, p + 4 + a) # <<>>)
         IN  IF gaps = <<>> THEN <<>>
             ELSE LET q == p + 4 + Head(gaps)
                  IN  SubSeq(text, q, q + Head(WeekGroupLens(text, q)) - 1)

\* match.group(1) or match.group(2) of a match starting at p; <<>> if the
\* pattern does not match there.
WeekMatchAt(text, p) ==
    IF WeekBranch1(text, p) # <<>> THEN WeekBranch1(text, p) ELSE WeekBranch2(text, p)

\* The match at the rightmost position in place of the leftmost one (the
\* last element of re.finditer rather than re.search).
WeekSearchLast(text) ==
    LET at == {p \in 1..Len(text) : WeekMatchAt(text, p) # <<>>}
    IN  IF at = {} THEN <<>>
        ELSE WeekMatchAt(text, CHOOSE p \in at : \A q \in at : p >= q)

\* re.search: the match at the leftmost position where the pattern matches.
WeekSearch(text) ==
    LET at == {p \in 1..Len(text) : WeekMatchAt(text, p) # <<>>}
    IN  IF at = {} THEN <<>>
        ELSE WeekMatchAt(text, CHOOSE p \in at : \A q \in at : p <= q)

\* re.sub(r'(st|nd|rd|th)$', '', word), app.py:34
StripSuffix(word) ==
    IF Len(word) >= 2 /\ SuffixAt(word, Len(word) - 1)
    THEN SubSeq(word, 1, Len(word) - 2)
    ELSE word

\* find_week with `return word` as the last branch: a token that is neither
\* in the table nor a digit string is handed back as it is.
find_week_raw(text) ==
    LET group == WeekSearch(text)
    IN  IF group = <<>> THEN None
        ELSE LET word == StripSuffix(Lower(group))
             IN  IF word \in DOMAIN week_words THEN week_words[word]
                 ELSE IF isdigit(word) THEN int(word)
                 ELSE word

find_week(text) ==
    LET group == WeekSearch(text)
    IN  IF group = <<>> THEN None
        ELSE LET word == StripSuffix(Lower(group))
             IN  IF word \in DOMAIN week_words THEN week_words[word]
                 ELSE IF isdigit(word) THEN int(word)
                 ELSE None

-----------------------------------------------------------------------------
(* find_location (app.py:43-46) *)

\* The word alternatives of the group of the location pattern, in order.
LocWordAlts == <<<<"f", "i", "r", "s", "t">>, <<"s", "e", "c", "o", "n", "d">>, <<"t", "h", "i", "r", "d">>, <<"f", "o", "u", "r", "t", "h">>, <<"f", "i", "f", "t", "h">>>>

\* \d+(?:st|nd|rd|th)? at p for a digit run of length k: with the suffix
\* first (the optional group is greedy), then without it.
LocDigitLens(text, p, k) ==
    IF SuffixAt(text, p + k) THEN <<k + 2, k>> ELSE <<k>>

RECURSIVE LocDigitAlts(_, _, _)
LocDigitAlts(text, p, k) ==
    IF k = 0 THEN <<>>
    ELSE LocDigitLens(text, p, k) \o LocDigitAlts(text, p, k - 1)

\* The lengths the group (first|...|fifth|\d+(?:st|nd|rd|th)?) can take at
\* p, in the order the matcher tries them.
LocGroupLens(text, p) ==
    LET words == SelectSeq(LocWordAlts, LAMBDA w : MatchesAt(text, p, w))
    IN  [i \in 1..Len(words) |-> Len(words[i])]
            \o LocDigitAlts(text, p, DigitRun(text, p))

\* \s+<word> at q: the position after the match, 0 if it does not match.
SpacesThen(text, q, word) ==
    LET gaps == SelectSeq(Descending(SpaceRun(text, q)),
                          LAMBDA a : MatchesAt(text, q + a, word))
    IN  IF gaps = <<>> THEN 0 ELSE q + Head(gaps) + Len(word)

\* The location pattern at p: <<text of group 1, position after the match>>,
\* or <<>> if the pattern does not match at p. Group 1 belongs to the floor
\* alternative only; in a match of any other alternative it is unset.
LocMatchAt(text, p) ==
    LET floors == SelectSeq(LocGroupLens(text, p),
                            LAMBDA n : SpacesThen(text, p + n, <<"f", "l", "o", "o", "r">>) # 0)
    IN  IF floors # <<>>
          THEN <<SubSeq(text, p, p + Head(floors) - 1),
                 SpacesThen(text, p + Head(floors), <<"f", "l", "o", "o", "r">>)>>
        ELSE IF MatchesAt(text, p, <<"b", "a", "s", "e", "m", "e", "n", "t">>) THEN <<<<>>, p + 8>>
        ELSE IF MatchesAt(text, p, <<"r", "o", "o", "f">>) THEN <<<<>>, p + 4>>
        ELSE IF MatchesAt(text, p, <<"p", "a", "r", "k", "i", "n", "g">>)
                /\ SpacesThen(text, p + 7, <<"a", "r", "e", "a">>) # 0
          THEN <<<<>>, SpacesThen(text, p + 7, <<"a", "r", "e", "a">>)>>
        ELSE IF MatchesAt(text, p, <<"m", "a", "i", "n">>)
                /\ SpacesThen(text, p + 4, <<"e", "n", "t", "r", "a", "n", "c", "e">>) # 0
          THEN <<<<>>, SpacesThen(text, p + 4, <<"e", "n", "t", "r", "a", "n", "c", "e">>)>>
        ELSE <<>>

\* re.findall with one group: scanning left to right, the text of group 1 of
\* every non-overlapping match (the empty string where group 1 is unset).
RECURSIVE LocFindAll(_, _)
LocFindAll(text, p) ==
    IF p > Len(text) THEN <<>>
    ELSE IF LocMatchAt(text, p) = <<>> THEN LocFindAll(text, p + 1)
    ELSE <<LocMatchAt(text, p)[1]>> \o LocFindAll(text, LocMatchAt(text, p)[2])

find_location(text) ==
    LET matches == LocFindAll(text, 1)
    IN  [i \in 1..Len(matches) |-> Lower(matches[i])]

-----------------------------------------------------------------------------
(* get_keywords (app.py:18-22) *)

RECURSIVE WordRun(_, _)
WordRun(text, p) ==
    IF p <= Len(text) /\ ~IsSpace(text[p]) THEN 1 + WordRun(text, p + 1) ELSE 0

\* nltk.word_tokenize on text made of letters, digits and whitespace: the
\* maximal runs of non-whitespace characters, in order.
RECURSIVE word_tokenize(_)
word_tokenize(text) ==
    IF text = <<>> THEN <<>>
    ELSE IF IsSpace(Head(text)) THEN word_tokenize(Tail(text))
    ELSE <<SubSeq(text, 1, WordRun(text, 1))>>
             \o word_tokenize(SubSeq(text, WordRun(text, 1) + 1, Len(text)))

\* The part-of-speech tags the tagger may give a token: a noun tag and a tag
\* that is not a noun tag.
PosTags == {<<"N", "N", "S">>, <<"V", "B">>}

\* nltk.pos_tag: the tagger is an external capability; every assignment of
\* tags to the tokens is possible.
pos_tag(tokens) ==
    {[i \in 1..Len(tokens) |-> <<tokens[i], tags[i]>>] :
        tags \in [1..Len(tokens) -> PosTags]}

\* str.startswith
startswith(s, prefix) ==
    Len(s) >= Len(prefix) /\ SubSeq(s, 1, Len(prefix)) = prefix

\* get_keywords, given what pos_tag returned for the tokens of the text.
get_keywords(tagged) ==
    LET nouns == SelectSeq(tagged, LAMBDA t : startswith(t[2], <<"N", "N">>))
    IN  [i \in 1..Len(nouns) |-> Lower(nouns[i][1])]

-----------------------------------------------------------------------------
(* search (app.py:48-89) *)

\* Values of a record's fields as json.load produces them.
JStr(s) == <<"str", s>>
JInt(n) == <<"int", n>>

\* str(value)
str(v) == IF v[1] = "int" THEN IntToStr(v[2]) ELSE v[2]

\* item.get(key, "")
Get(item, key) == IF key \in DOMAIN item THEN item[key] ELSE JStr(<<>>)

\* " ".join(parts)
RECURSIVE join(_)
join(parts) ==
    IF parts = <<>> THEN <<>>
    ELSE IF Len(parts) = 1 THEN parts[1]
    ELSE parts[1] \o <<" ">> \o join(Tail(parts))

\* item_text, app.py:57-62
item_text(item) ==
    Lower(join(<<str(Get(item, "location")), str(Get(item, "activity")),
                 str(Get(item, "hazard")), str(Get(item, "description"))>>))

\* app.py:64
item_week(item) == str(Get(item, "week"))

\* app.py:65
item_location(item) == Lower(str(Get(item, "location")))

\* app.py:67-70
week_match(item, week) ==
    IF week = None THEN TRUE ELSE item_week(item) = IntToStr(week)

\* app.py:72-75
location_match(item, locations) ==
    IF locations = <<>> THEN TRUE
    ELSE \E i \in 1..Len(locations) : Contains(item_location(item), locations[i])

\* any(...) without the `if not keywords` branch before it.
keyword_match_any(item, kws) ==
    \E i \in 1..Len(kws) : Contains(item_text(item), kws[i])

\* app.py:77-80
keyword_match(item, kws) ==
    IF kws = <<>> THEN TRUE
    ELSE \E i \in 1..Len(kws) : Contains(item_text(item), kws[i])

\* Truth value of `week` in `if week or locations` (None and 0 are false).
WeekTruthy(week) == week # None /\ week # 0

\* app.py:82-86: whether the loop body appends the item.
Selected(item, kws, week, locations) ==
    IF WeekTruthy(week) \/ locations # <<>>
    THEN week_match(item, week) /\ location_match(item, locations)
    ELSE keyword_match(item, kws)

\* The loop with results.insert(0, item) in place of results.append(item).
RECURSIVE ScanPrepend(_, _, _, _)
ScanPrepend(items, kws, week, locations) ==
    IF items = <<>> THEN <<>>
    ELSE ScanPrepend(Tail(items), kws, week, locations)
             \o (IF Selected(Head(items), kws, week, locations)
                 THEN <<Head(items)>> ELSE <<>>)

\* The loop of app.py:56-86 over the items still to visit.
RECURSIVE Scan(_, _, _, _)
Scan(items, kws, week, locations) ==
    IF items = <<>> THEN <<>>
    ELSE (IF Selected(Head(items), kws, week, locations)
          THEN <<Head(items)>> ELSE <<>>)
             \o Scan(Tail(items), kws, week, locations)

\* search(text), given what pos_tag returned inside get_keywords: the triple
\* results, keywords, restrictions.
search(text, tagged) ==
    LET kws == [i \in 1..Len(get_keywords(tagged)) |->
                    Lower(get_keywords(tagged)[i])]
        week == find_week(text)
        locations == [i \in 1..Len(find_location(text)) |->
                          Lower(find_location(text)[i])]
    IN  [results |-> Scan(database, kws, week, locations),
         keywords |-> kws,
         restrictions |-> [week |-> week, location |-> locations]]

-----------------------------------------------------------------------------
(* Inputs *)

\* Largest number of records in a catalogue.
MaxRecords == 2

\* Largest week number a query of the handler asks for.
MaxWeek == 2

\* Longest digit string handed to the extractors.
MaxDigits == 2

Range(f) == {f[i] : i \in DOMAIN f}

UpperChar(c) ==
    CASE c = "a" -> "A" [] c = "b" -> "B" [] c = "c" -> "C" [] c = "d" -> "D"
      [] c = "e" -> "E" [] c = "f" -> "F" [] c = "g" -> "G" [] c = "h" -> "H"
      [] c = "i" -> "I" [] c = "j" -> "J" [] c = "k" -> "K" [] c = "l" -> "L"
      [] c = "m" -> "M" [] c = "n" -> "N" [] c = "o" -> "O" [] c = "p" -> "P"
      [] c = "q" -> "Q" [] c = "r" -> "R" [] c = "s" -> "S" [] c = "t" -> "T"
      [] c = "u" -> "U" [] c = "v" -> "V" [] c = "w" -> "W" [] c = "x" -> "X"
      [] c = "y" -> "Y" [] c = "z" -> "Z" [] OTHER -> c

Upper(s) == [i \in 1..Len(s) |-> UpperChar(s[i])]

Capitalize(s) == [i \in 1..Len(s) |-> IF i = 1 THEN UpperChar(s[i]) ELSE s[i]]

\* A word in lower case, capitalised and in upper case.
Cases(w) == {w, Capitalize(w), Upper(w)}

\* The catalogues: the records a catalogue is made of.
RecordPool ==
    { [location |-> JStr(<<"B", "a", "s", "e", "m", "e", "n", "t">>), week |-> JStr(<<"2">>)],
      [location |-> JStr(<<"R", "o", "o", "f">>), week |-> JInt(2),
       hazardType |-> JStr(<<"s", "c", "a", "f", "f", "o", "l", "d">>)],
      [location |-> JStr(<<"S", "e", "c", "o", "n", "d", " ", "A", "v", "e", "n", "u", "e">>),
       description |-> JStr(<<"d", "e", "b", "r", "i", "s", " ", "n", "e", "a", "r", " ", "s", "c", "a", "f", "f", "o", "l", "d">>), week |-> JStr(<<"0">>)] }

Catalogues == UNION {[1..n -> RecordPool] : n \in 0..MaxRecords}

\* The queries submitted to the handler: an optional noun part, an optional
\* location mention and an optional week mention, in this order.
NounParts == {<<>>, <<"s", "c", "a", "f", "f", "o", "l", "d">>}

LocationParts == {<<>>, <<"b", "a", "s", "e", "m", "e", "n", "t">>, <<"S", "e", "c", "o", "n", "d", " ", "F", "l", "o", "o", "r">>}

WeekParts ==
    {<<>>, <<"t", "h", "i", "r", "d", " ", "w", "e", "e", "k">>} \cup {<<"w", "e", "e", "k", " ">> \o IntToStr(n) : n \in 0..MaxWeek}

Queries ==
    {join(SelectSeq(<<n, l, w>>, LAMBDA part : part # <<>>)) :
        n \in NounParts, l \in LocationParts, w \in WeekParts}
    \cup {<<" ">>}

\* The texts handed to the extractors on their own.
OrdinalWordForms == UNION {Cases(w) : w \in Range(WeekWordAlts)}

DigitAlphabet == {"0", "1", "3"}

DigitStrings == UNION {[1..n -> DigitAlphabet] : n \in 1..MaxDigits}

SuffixedDigits == {d \o s : d \in DigitStrings, s \in Range(OrdinalSuffixes)}

WeekSpellings == Cases(<<"w", "e", "e", "k">>)

WeekTexts ==
    {t \o <<" ">> \o wk :
        t \in OrdinalWordForms \cup DigitStrings \cup SuffixedDigits,
        wk \in WeekSpellings}
    \cup {wk \o <<" ">> \o t :
        t \in OrdinalWordForms \cup DigitStrings, wk \in WeekSpellings}

FloorTexts ==
    {t \o <<" ">> \o fl \o rest :
        t \in UNION {Cases(w) : w \in Range(LocWordAlts)}
                \cup DigitStrings \cup SuffixedDigits,
        fl \in {<<"f", "l", "o", "o", "r">>, <<"F", "l", "o", "o", "r">>},
        rest \in {<<>>, <<" ", "i", "n", "c", "i", "d", "e", "n", "t">>}}

PlaceTexts ==
    {pre \o place \o rest :
        pre \in {<<>>, <<"a", "t", " ", "t", "h", "e", " ">>},
        place \in Cases(<<"b", "a", "s", "e", "m", "e", "n", "t">>) \cup Cases(<<"r", "o", "o", "f">>)
                    \cup Cases(<<"p", "a", "r", "k", "i", "n", "g", " ", "a", "r", "e", "a">>) \cup Cases(<<"m", "a", "i", "n", " ", "e", "n", "t", "r", "a", "n", "c", "e">>)
                    \cup Cases(<<"m", "a", "i", "n", " ", "s", "i", "t", "e">>),
        rest \in {<<>>, <<" ", "i", "n", "c", "i", "d", "e", "n", "t">>}}

OtherTexts ==
    {<<>>, <<" ">>, <<"h", "a", "z", "a", "r", "d", "s">>, <<"w", "e", "e", "k">>, <<"f", "l", "o", "o", "r">>, <<"b", "a", "s", "e", "m", "e", "n", "t", " ", "r", "o", "o", "f">>,
     <<"2", "n", "d", " ", "f", "l", "o", "o", "r", " ", "b", "a", "s", "e", "m", "e", "n", "t">>, <<"r", "o", "o", "f", " ", "w", "e", "e", "k", " ", "3", " ", "s", "e", "c", "o", "n", "d", " ", "f", "l", "o", "o", "r">>,
     <<"w", "e", "e", "k", " ", "1", " ", "w", "e", "e", "k", " ", "3">>, <<"t", "h", "i", "r", "d", " ", "w", "e", "e", "k", " ", "3">>}

\* Texts with two week mentions, one after the other.
PairMentions ==
    {<<"w", "e", "e", "k", " ", "1">>, <<"3", "r", "d", " ", "w", "e", "e", "k">>, <<"t", "h", "i", "r", "d", " ", "w", "e", "e", "k">>, <<"w", "e", "e", "k", " ", "t", "h", "i", "r", "d">>, <<"t", "w", "o", " ", "w", "e", "e", "k">>,
     <<"w", "e", "e", "k", " ", "0">>, <<"W", "E", "E", "K", " ", "1", "3">>, <<"f", "o", "u", "r", "t", "h", " ", "w", "e", "e", "k">>}

MentionSeparators == {<<" ">>, <<" ", "a", "n", "d", " ">>}

PairTexts ==
    {m1 \o sep \o m2 :
        m1 \in PairMentions, sep \in MentionSeparators, m2 \in PairMentions}

ExtractTexts ==
    WeekTexts \cup FloorTexts \cup PlaceTexts \cup OtherTexts \cup PairTexts

\* The requests served at the same time (the development server of
\* app.run answers each request in a thread of its own).
Threads == {"t1", "t2"}

\* The locals of a search call that is not running.
IdleThread ==
    [pc |-> "idle", text |-> <<>>, tagged |-> <<>>, keywords |-> <<>>,
     week |-> None, locations |-> <<>>, i |-> 0, results |-> <<>>]

-----------------------------------------------------------------------------
(* The request handler home (app.py:92-110) *)

\* restrictions = {}
EmptyDict == [week |-> None, location |-> <<>>, unset |-> TRUE]

Init ==
    /\ database \in Catalogues
    /\ pc = "idle"
    /\ method = "none"
    /\ tagger = "not called"
    /\ user_input = <<>>
    /\ keywords = <<>>
    /\ restrictions = EmptyDict
    /\ results = <<>>
    /\ arg = <<>>
    /\ week_ret = <<>>
    /\ loc_ret = <<>>
    /\ threads = [t \in Threads |-> IdleThread]

\* A GET request: the template is rendered with the initial values.
HomeGet ==
    /\ pc = "idle"
    /\ pc' = "rendered"
    /\ method' = "GET"
    /\ tagger' = "not called"
    /\ user_input' = <<>>
    /\ keywords' = <<>>
    /\ restrictions' = EmptyDict
    /\ results' = <<>>
    /\ UNCHANGED <<database, arg, week_ret, loc_ret, threads>>

\* A POST request whose user_input is the empty string (or is absent from
\* the form): `if user_input` is false and search is not called.
HomePostEmpty ==
    /\ pc = "idle"
    /\ pc' = "rendered"
    /\ method' = "POST"
    /\ tagger' = "not called"
    /\ user_input' = <<>>
    /\ keywords' = <<>>
    /\ restrictions' = EmptyDict
    /\ results' = <<>>
    /\ UNCHANGED <<database, arg, week_ret, loc_ret, threads>>

\* A POST request with a non-empty user_input: search is called and what it
\* returns is rendered.
HomePostSearch ==
    /\ pc = "idle"
    /\ \E text \in Queries :
         /\ text # <<>>
         /\ \E tagged \in pos_tag(word_tokenize(text)) :
              \E returned \in {search(text, tagged)} :
                  /\ user_input' = text
                  /\ keywords' = returned.keywords
                  /\ restrictions' = returned.restrictions
                  /\ results' = returned.results
    /\ pc' = "rendered"
    /\ method' = "POST"
    /\ tagger' = "returned"
    /\ UNCHANGED <<database, arg, week_ret, loc_ret, threads>>

\* A POST request with a non-empty user_input during which pos_tag raises:
\* neither get_keywords nor search nor home catches the exception, so it
\* leaves home and nothing is rendered.
HomePostTaggerFails ==
    /\ pc = "idle"
    /\ \E text \in Queries :
         /\ text # <<>>
         /\ user_input' = text
    /\ pc' = "error"
    /\ method' = "POST"
    /\ tagger' = "raised"
    /\ keywords' = <<>>
    /\ restrictions' = EmptyDict
    /\ results' = <<>>
    /\ UNCHANGED <<database, arg, week_ret, loc_ret, threads>>

\* The response is sent and the handler's locals are gone.
Respond ==
    /\ pc \in {"rendered", "error"}
    /\ pc' = "idle"
    /\ method' = "none"
    /\ tagger' = "not called"
    /\ user_input' = <<>>
    /\ keywords' = <<>>
    /\ restrictions' = EmptyDict
    /\ results' = <<>>
    /\ UNCHANGED <<database, arg, week_ret, loc_ret, threads>>

Next ==
    \/ HomeGet
    \/ HomePostEmpty
    \/ HomePostSearch
    \/ HomePostTaggerFails
    \/ Respond

Spec == Init /\ [][Next]_vars

-----------------------------------------------------------------------------
(* The extractors called on their own *)

InitExtract ==
    /\ database = <<>>
    /\ pc = "extract"
    /\ method = "none"
    /\ tagger = "not called"
    /\ user_input = <<>>
    /\ keywords = <<>>
    /\ restrictions = EmptyDict
    /\ results = <<>>
    /\ arg \in ExtractTexts
    /\ week_ret = <<>>
    /\ loc_ret = <<>>
    /\ threads = [t \in Threads |-> IdleThread]

\* week_ret holds the value find_week(arg) returned.
CallFindWeek ==
    /\ pc = "extract"
    /\ week_ret = <<>>
    /\ week_ret' = <<find_week(arg)>>
    /\ UNCHANGED <<database, pc, method, tagger, user_input, keywords,
                   restrictions, results, arg, loc_ret, threads>>

\* loc_ret holds the list find_location(arg) returned.
CallFindLocation ==
    /\ pc = "extract"
    /\ loc_ret = <<>>
    /\ loc_ret' = <<find_location(arg)>>
    /\ UNCHANGED <<database, pc, method, tagger, user_input, keywords,
                   restrictions, results, arg, week_ret, threads>>

NextExtract == CallFindWeek \/ CallFindLocation

SpecExtract == InitExtract /\ [][NextExtract]_vars

-----------------------------------------------------------------------------
(* search calls running at the same time, one loop iteration per step *)

\* The catalogues of the concurrent runs: every record once, in any order.
ThreadCatalogues ==
    {c \in [1..Cardinality(RecordPool) -> RecordPool] :
        \A i \in DOMAIN c : \A j \in DOMAIN c : c[i] = c[j] => i = j}

\* The queries of the concurrent runs.
ThreadQueries == {<<"s", "c", "a", "f", "f", "o", "l", "d">>, <<"w", "e", "e", "k", " ", "0">>, <<"b", "a", "s", "e", "m", "e", "n", "t", " ", "w", "e", "e", "k", " ", "2">>}

InitThreads ==
    /\ database \in ThreadCatalogues
    /\ pc = "threads"
    /\ method = "none"
    /\ tagger = "not called"
    /\ user_input = <<>>
    /\ keywords = <<>>
    /\ restrictions = EmptyDict
    /\ results = <<>>
    /\ arg = <<>>
    /\ week_ret = <<>>
    /\ loc_ret = <<>>
    /\ threads = [t \in Threads |-> IdleThread]

handler_vars ==
    <<pc, method, tagger, user_input, keywords, restrictions, results, arg,
      week_ret, loc_ret>>

\* app.py:50-54: a search call starts; it extracts keywords, week and
\* locations from its text and sets results = [].
ThreadBegin ==
    /\ pc = "threads"
    /\ \E t \in Threads : \E text \in ThreadQueries :
         \E tagged \in pos_tag(word_tokenize(text)) :
           /\ threads[t].pc = "idle"
           /\ threads' = [threads EXCEPT ![t] =
                  [pc |-> "loop", text |-> text, tagged |-> tagged,
                   keywords |-> [i \in 1..Len(get_keywords(tagged)) |->
                                    Lower(get_keywords(tagged)[i])],
                   week |-> find_week(text),
                   locations |-> [i \in 1..Len(find_location(text)) |->
                                     Lower(find_location(text)[i])],
                   i |-> 1, results |-> <<>>]]
    /\ UNCHANGED <<database, handler_vars>>

\* The loop body with `while database: item = database.pop(0)` in place of
\* `for item in database`: the loop consumes the shared catalogue.
ThreadStepPop ==
    /\ pc = "threads"
    /\ database # <<>>
    /\ \E t \in Threads :
         /\ threads[t].pc = "loop"
         /\ threads' = [threads EXCEPT ![t].results =
                IF Selected(Head(database), threads[t].keywords,
                            threads[t].week, threads[t].locations)
                THEN Append(@, Head(database)) ELSE @]
    /\ database' = Tail(database)
    /\ UNCHANGED handler_vars

\* app.py:56-86: one iteration of `for item in database` in one call.
ThreadStep ==
    /\ pc = "threads"
    /\ \E t \in Threads :
         /\ threads[t].pc = "loop"
         /\ threads[t].i <= Len(database)
         /\ threads' = [threads EXCEPT
                ![t].results =
                    IF Selected(database[threads[t].i], threads[t].keywords,
                                threads[t].week, threads[t].locations)
                    THEN Append(@, database[threads[t].i]) ELSE @,
                ![t].i = @ + 1]
    /\ UNCHANGED <<database, handler_vars>>

\* app.py:88-89: the loop is over and the call returns its triple.
ThreadReturn ==
    /\ pc = "threads"
    /\ \E t \in Threads :
         /\ threads[t].pc = "loop"
         /\ threads[t].i > Len(database)
         /\ threads' = [threads EXCEPT ![t].pc = "returned"]
    /\ UNCHANGED <<database, handler_vars>>

\* The caller has taken the triple; the call's locals are gone.
ThreadEnd ==
    /\ pc = "threads"
    /\ \E t \in Threads :
         /\ threads[t].pc = "returned"
         /\ threads' = [threads EXCEPT ![t] = IdleThread]
    /\ UNCHANGED <<database, handler_vars>>

NextThreads == ThreadBegin \/ ThreadStep \/ ThreadReturn \/ ThreadEnd

SpecThreads == InitThreads /\ [][NextThreads]_vars

-----------------------------------------------------------------------------
(* Properties of find_week, checked under SpecExtract *)

\* The week mentions built from a token: "<token> week" and "week <token>",
\* with the word week in any letter case.
TokenThenWeek(token) == {token \o <<" ">> \o wk : wk \in WeekSpellings}

WeekThenToken(token) == {wk \o <<" ">> \o token : wk \in WeekSpellings}

\* C2: for every ordinal word w of the table with value n, find_week of
\* "<w> week" and of "week <w>", in any letter case, returns n.
C2_OrdinalWordWeeks ==
    \A w \in DOMAIN week_words : \A form \in Cases(w) :
        (arg \in TokenThenWeek(form) \cup WeekThenToken(form) /\ week_ret # <<>>)
            => week_ret = <<week_words[w]>>

\* The number a decimal digit string denotes, read from the left.
RECURSIVE DecimalFrom(_, _)
DecimalFrom(acc, digits) ==
    IF digits = <<>> THEN acc
    ELSE DecimalFrom(10 * acc + DigitValue(Head(digits)), Tail(digits))

\* C3: for every non-empty digit string d and every ordinal suffix s,
\* find_week of "<d> week", "<d><s> week" and "week <d>" returns the integer
\* value of d.
C3_DigitWeeks ==
    \A d \in DigitStrings :
        LET mentions ==
                TokenThenWeek(d) \cup WeekThenToken(d)
                \cup UNION {TokenThenWeek(d \o s) : s \in Range(OrdinalSuffixes)}
        IN  (arg \in mentions /\ week_ret # <<>>)
                => week_ret = <<DecimalFrom(0, d)>>

\* C3's case: find_week has returned for a suffixed multi-digit mention and
\* for "3rd week".
C3_Witness ==
    \/ arg = <<"3", "r", "d", " ", "w", "e", "e", "k">> /\ week_ret = <<3>>
    \/ arg = <<"W", "E", "E", "K", " ", "1", "3">> /\ week_ret = <<13>>

\* C12: when a text holds several week mentions, find_week returns what it
\* returns for the leftmost mention alone; a later mention never changes the
\* result, also when the leftmost mention normalizes to None.
C12_FirstMatchWins ==
    \A m1 \in PairMentions : \A sep \in MentionSeparators :
        \A m2 \in PairMentions :
            (arg = m1 \o sep \o m2 /\ week_ret # <<>>)
                => week_ret = <<find_week(m1)>>

\* C12's case: the leftmost mention normalizes to None and a later mention
\* names week 1; and the leftmost names week 13 and a later one week 0.
C12_Witness ==
    \/ arg = <<"t", "h", "i", "r", "d", " ", "w", "e", "e", "k", " ", "a", "n", "d", " ", "w", "e", "e", "k", " ", "1">> /\ week_ret = <<None>>
    \/ arg = <<"W", "E", "E", "K", " ", "1", "3", " ", "w", "e", "e", "k", " ", "0">> /\ week_ret = <<13>>

\* How None and the non-negative integers a text of the model can denote
\* are written. (A value is compared through the way it is written, which
\* is defined for values of every kind.)
IntOrNoneImages ==
    {ToString(n) : n \in 0..(10 ^ (MaxDigits + 1))} \cup {ToString(None)}

IsIntOrNone(value) == ToString(value) \in IntOrNoneImages

\* C13: for every text, find_week returns None or a non-negative integer,
\* never a string.
C13_WeekIsIntOrNone ==
    week_ret # <<>> => IsIntOrNone(week_ret[1])

\* C13's case: find_week has returned None for a token that is left as a
\* string by the normalization, and an integer for a digit token.
C13_Witness ==
    \/ arg = <<"t", "h", "i", "r", "d", " ", "w", "e", "e", "k">> /\ week_ret = <<None>>
    \/ arg = <<"w", "e", "e", "k", " ", "1", "0">> /\ week_ret = <<10>>

-----------------------------------------------------------------------------
(* Properties of find_location, checked under SpecExtract *)

\* C4: every location mention is returned as the whole matched phrase in
\* lower case: "<ordinal or digit> floor" for a floor mention, the phrase
\* itself for basement, roof, parking area, main entrance and main site; no
\* returned element is the empty string.
C4_WholePhraseLowercase ==
    loc_ret # <<>> =>
        /\ \A i \in 1..Len(loc_ret[1]) : loc_ret[1][i] # <<>>
        /\ \A t \in UNION {Cases(w) : w \in Range(LocWordAlts)}
                      \cup DigitStrings \cup SuffixedDigits :
             \A fl \in {<<"f", "l", "o", "o", "r">>, <<"F", "l", "o", "o", "r">>} :
               arg = t \o <<" ">> \o fl => loc_ret[1] = <<Lower(arg)>>
        /\ arg = <<"S", "e", "c", "o", "n", "d", " ", "F", "l", "o", "o", "r", " ", "i", "n", "c", "i", "d", "e", "n", "t">>
             => \E i \in 1..Len(loc_ret[1]) : loc_ret[1][i] = <<"s", "e", "c", "o", "n", "d", " ", "f", "l", "o", "o", "r">>
        /\ \A place \in {<<"b", "a", "s", "e", "m", "e", "n", "t">>, <<"r", "o", "o", "f">>, <<"p", "a", "r", "k", "i", "n", "g", " ", "a", "r", "e", "a">>,
                         <<"m", "a", "i", "n", " ", "e", "n", "t", "r", "a", "n", "c", "e">>, <<"m", "a", "i", "n", " ", "s", "i", "t", "e">>} :
             arg \in Cases(place) => loc_ret[1] = <<place>>

-----------------------------------------------------------------------------
(* Properties of search and home, checked under Spec *)

\* search has returned and home has rendered what it returned.
Searched == pc = "rendered" /\ tagger = "returned"

\* C1: if the week slot is not None or locations were extracted, a record is
\* selected iff week_match and location_match, whatever the keywords are;
\* otherwise iff keyword_match. This holds for every week value, week 0
\* included.
C1_PrecedencePolicy ==
    Searched =>
        results = SelectSeq(database, LAMBDA item :
            IF restrictions.week # None \/ restrictions.location # <<>>
            THEN /\ week_match(item, restrictions.week)
                 /\ location_match(item, restrictions.location)
            ELSE keyword_match(item, keywords))

\* The query made of an optional noun part, a location phrase and "week k".
WeekLocationQuery(n, l, k) ==
    join(SelectSeq(<<n, l, <<"w", "e", "e", "k", " ">> \o IntToStr(k)>>, LAMBDA part : part # <<>>))

\* C5: a query that mentions week k and a location phrase l returns exactly
\* the records whose week field as text equals k and whose lower-case
\* location field contains l.
C5_WeekAndLocationQuery ==
    \A n \in NounParts : \A l \in LocationParts \ {<<>>} : \A k \in 0..MaxWeek :
        (Searched /\ user_input = WeekLocationQuery(n, l, k)) =>
            results = SelectSeq(database, LAMBDA item :
                /\ str(Get(item, "week")) = IntToStr(k)
                /\ Contains(Lower(str(Get(item, "location"))), Lower(l)))

\* The haystack of the specification: all seven fields.
Haystack7(item) ==
    Lower(join(<<str(Get(item, "location")), str(Get(item, "activity")),
                 str(Get(item, "hazard")), str(Get(item, "hazardType")),
                 str(Get(item, "description")), str(Get(item, "timeline")),
                 str(Get(item, "week"))>>))

\* C6: with no week and no location extracted and some keyword, a record is
\* selected iff a keyword is a substring of its haystack of location,
\* activity, hazard, hazardType, description, timeline and week.
C6_SevenFieldHaystack ==
    (/\ Searched
     /\ restrictions.week = None
     /\ restrictions.location = <<>>
     /\ keywords # <<>>) =>
        results = SelectSeq(database, LAMBDA item :
            \E i \in 1..Len(keywords) : Contains(Haystack7(item), keywords[i]))

\* C7: a query from which no week, no location and no keyword is extracted
\* returns the entire catalogue, in catalogue order.
C7_NoConstraintReturnsAll ==
    (/\ Searched
     /\ restrictions.week = None
     /\ restrictions.location = <<>>
     /\ keywords = <<>>) =>
        results = database

\* C7's case: a query of one word that the tagger did not tag as a noun has
\* returned a catalogue of two different records.
C7_Witness ==
    /\ Searched
    /\ user_input = <<"s", "c", "a", "f", "f", "o", "l", "d">>
    /\ keywords = <<>>
    /\ restrictions = [week |-> None, location |-> <<>>]
    /\ Len(results) = 2
    /\ results[1] # results[2]

\* sub is obtained from seq by deleting elements: the positions of seq its
\* elements come from are strictly increasing.
IsSubsequence(sub, seq) ==
    \E f \in [1..Len(sub) -> 1..Len(seq)] :
        /\ \A i \in 1..Len(sub) : sub[i] = seq[f[i]]
        /\ \A i \in 1..Len(sub) : \A j \in 1..Len(sub) : i < j => f[i] < f[j]

\* C8: the results of search are a subsequence of the catalogue: every
\* returned record is a catalogue record, none is returned more than once,
\* and they come in catalogue order.
C8_ResultsSubsequence ==
    Searched => IsSubsequence(results, database)

\* C8's case: search has returned both records of a catalogue of two
\* different records.
C8_Witness ==
    /\ Searched
    /\ Len(database) = 2
    /\ database[1] # database[2]
    /\ keywords # <<>>
    /\ results = database

\* Python's str.strip() leaves nothing.
IsBlank(text) == \A i \in 1..Len(text) : IsSpace(text[i])

\* C9: an empty query and a whitespace-only query are not run through the
\* filter: search is not called, nothing is extracted and the result list
\* stays empty.
C9_BlankQueryNotSearched ==
    (method = "POST" /\ IsBlank(user_input)) =>
        /\ tagger = "not called"
        /\ keywords = <<>>
        /\ restrictions = EmptyDict
        /\ results = <<>>

\* C10: if pos_tag fails during a query, the keywords are empty, search
\* completes and returns the records the other constraints select; the
\* failure does not leave search as an error.
C10_TaggerFailureDegrades ==
    tagger = "raised" =>
        /\ pc = "rendered"
        /\ keywords = <<>>
        /\ results = Scan(database, <<>>, find_week(user_input),
                          find_location(user_input))

\* C13, second part: the week that search reports in its slots is None or a
\* non-negative integer (a state predicate of Spec).
C13_SlotWeekIsIntOrNone ==
    Searched => IsIntOrNone(restrictions.week)

-----------------------------------------------------------------------------
(* Properties of concurrent search calls, checked under SpecThreads *)

\* Two calls that have returned for the same text and the same tagging
\* hold the same results, keywords and slots.
RepeatAgrees ==
    \A t1 \in Threads : \A t2 \in Threads :
        (/\ threads[t1].pc = "returned"
         /\ threads[t2].pc = "returned"
         /\ threads[t1].text = threads[t2].text
         /\ threads[t1].tagged = threads[t2].tagged) =>
            /\ threads[t1].results = threads[t2].results
            /\ threads[t1].keywords = threads[t2].keywords
            /\ threads[t1].week = threads[t2].week
            /\ threads[t1].locations = threads[t2].locations

\* A call that has returned holds what one uninterrupted pass over the
\* catalogue selects.
ReturnedAsAlone ==
    \A t \in Threads :
        threads[t].pc = "returned" =>
            threads[t].results =
                SelectSeq(database, LAMBDA item :
                    Selected(item, threads[t].keywords, threads[t].week,
                             threads[t].locations))

\* C11: no step of query handling writes the catalogue, whatever the
\* interleaving of the search calls, so a call returns what it returns when
\* run alone and a repeated search returns identical results, keywords and
\* slots. (Every reachable state has a step, so the two state predicates
\* are checked in every reachable state.)
C11_CatalogueNeverWritten ==
    [][database' = database /\ RepeatAgrees /\ ReturnedAsAlone]_vars

\* C11's case: two interleaved calls for the same text have both returned a
\* proper, non-empty part of the catalogue.
C11_Witness ==
    /\ threads["t1"].pc = "returned"
    /\ threads["t2"].pc = "returned"
    /\ threads["t1"].text = <<"b", "a", "s", "e", "m", "e", "n", "t", " ", "w", "e", "e", "k", " ", "2">>
    /\ threads["t2"].text = <<"b", "a", "s", "e", "m", "e", "n", "t", " ", "w", "e", "e", "k", " ", "2">>
    /\ threads["t1"].tagged = threads["t2"].tagged
    /\ Len(threads["t1"].results) = 2

=============================================================================
